---- MODULE Spec2Model ----
(***************************************************************************)
(* Model of the ICAP transaction controller of icapeg                      *)
(* (src/api/icap-request.go): one ICAP transaction, from NewICAPRequest    *)
(* through RequestInitialization and RequestProcessing, the latter run     *)
(* either by the caller or by the goroutine of the shadow service.         *)
(*                                                                         *)
(* A Go string is a sequence of tokens and + is \o, so that a key such as  *)
(* serviceName + ".shadow_service" is built as the code builds it.  The    *)
(* strings the code parses or formats (the Allow value, PreviewBytes,      *)
(* strconv.Itoa(204)) have one token per character.                        *)
(***************************************************************************)
EXTENDS Integers, Sequences, FiniteSets, TLC

VARIABLES cfg, req, run, twin

vars == <<cfg, req, run, twin>>

\* ------------------------------------------------------------------ bounds
\* longest encapsulated body, in bytes
MaxBodyLen == 1

\* --------------------------------------------------------------- constants
StatusOK == 200
StatusNotFound == 404
StatusMethodNotAllowed == 405
OkStatusCodeStr == 200
NoModificationStatusCodeStr == 204
InternalServerErrStatusCodeStr == 500

ICAPModeOptions == <<"OPTIONS">>
REQMOD == <<"REQMOD">>
RESPMOD == <<"RESPMOD">>
UtilsAny == <<"*">>
EmptyString == <<>>

\* ----------------------------------------------------------------- strconv
DigitChar == <<"0", "1", "2", "3", "4", "5", "6", "7", "8", "9">>

IsDigit(c) == \E d \in 1..10 : DigitChar[d] = c

DigitVal(c) == (CHOOSE d \in 1..10 : DigitChar[d] = c) - 1

RECURSIVE Itoa(_)
\* strconv.Itoa on a non-negative integer
Itoa(n) == IF n < 10 THEN <<DigitChar[n + 1]>>
           ELSE Itoa(n \div 10) \o <<DigitChar[(n % 10) + 1]>>

RECURSIVE ParseDigits(_, _)
ParseDigits(s, acc) == IF s = <<>> THEN acc
                       ELSE ParseDigits(Tail(s), 10 * acc + DigitVal(Head(s)))

\* strconv.Atoi, the value only (the callers drop the error): 0 on a
\* syntax error
Atoi(s) ==
  LET signed == s /= <<>> /\ Head(s) \in {"-", "+"}
      digits == IF signed THEN Tail(s) ELSE s
      ok     == digits /= <<>> /\ \A k \in 1..Len(digits) : IsDigit(digits[k])
  IN  IF ~ok THEN 0
      ELSE IF s[1] = "-" THEN 0 - ParseDigits(digits, 0)
      ELSE ParseDigits(digits, 0)

\* ------------------------------------------------------------- http.Header
\* textproto.CanonicalMIMEHeaderKey on the header names of the model: the
\* first letter and each letter after a hyphen in upper case, the rest in
\* lower case
CanonicalMIMEHeaderKey(key) ==
  CASE key \in {"ISTag", "Istag", "istag"} -> "Istag"
    [] key \in {"Service", "service"}      -> "Service"
    [] key \in {"X-Extra", "x-extra"}      -> "X-Extra"
    [] OTHER                               -> key

EmptyHeader == [k \in {} |-> EmptyString]

\* Header.Set: the canonical key now holds the one value
HeaderSet(h, key, value) ==
  [k \in DOMAIN h \cup {CanonicalMIMEHeaderKey(key)} |->
      IF k = CanonicalMIMEHeaderKey(key) THEN value ELSE h[k]]

\* Header.Get on a request header (key -> list of values): the first value,
\* "" when there is none
HeaderGet(h, key) ==
  IF CanonicalMIMEHeaderKey(key) \in DOMAIN h
       /\ Len(h[CanonicalMIMEHeaderKey(key)]) > 0
  THEN h[CanonicalMIMEHeaderKey(key)][1]
  ELSE EmptyString

\* ---------------------------------------------------------------- messages
\* the body of an encapsulated message: the bytes and the read offset
Byte == {7}

RECURSIVE SeqsUpTo(_, _)
SeqsUpTo(S, n) == IF n = 0 THEN {<<>>}
                  ELSE LET shorter == SeqsUpTo(S, n - 1)
                       IN  shorter \cup {Append(s, x) : s \in shorter, x \in S}

Bodies == SeqsUpTo(Byte, MaxBodyLen)

NewBuffer(data) == [data |-> data, off |-> 0, closed |-> FALSE, nop |-> FALSE]

\* io.NopCloser: Close does nothing
NopCloser(body) == [body EXCEPT !.nop = TRUE]

\* Body.Close()
Close(body) == IF body.nop THEN body ELSE [body EXCEPT !.closed = TRUE]

\* ioutil.ReadAll: what is left of the stream
ReadAll(body) == SubSeq(body.data, body.off + 1, Len(body.data))

\* a nil *http.Request or *http.Response
NilMsg == [id |-> "nil", Method |-> EmptyString, Body |-> NewBuffer(<<>>)]

\* &http.Request{}
EmptyRequest == [id |-> "empty", Method |-> EmptyString, Body |-> NewBuffer(<<>>)]

HttpRequest(method, data) ==
  [id |-> "Request", Method |-> method, Body |-> NewBuffer(data)]

HttpResponse(data) ==
  [id |-> "Response", Method |-> EmptyString, Body |-> NewBuffer(data)]

\* ------------------------------------------------------------ configuration
\* the configuration file as readValues sees it, and config.App()
Config(reqMode, respMode, shadow, previewEnabled, previewBytes) ==
  [ services |-> <<<<"svc">>>>,
    bools    |-> (<<"svc", ".", "req_mode">>  :> reqMode)
              @@ (<<"svc", ".", "resp_mode">> :> respMode)
              @@ (<<"svc", ".", "shadow_service">> :> shadow),
    strings  |-> (<<"svc", ".", "vendor">> :> <<"echo">>)
              @@ (<<"svc", ".", "service_tag">> :> <<"tag-1">>)
              @@ (<<"svc", ".", "service_caption">> :> <<"caption">>),
    app      |-> [PreviewEnabled |-> previewEnabled, PreviewBytes |-> previewBytes] ]

\* preview_enabled and preview_bytes: disabled, a size, a negative size, not
\* a number
PreviewSettings == { <<FALSE, <<"1", "0">> >>, <<TRUE, <<"1", "0">> >>,
                     <<TRUE, <<"-", "1">> >>, <<TRUE, <<"x">> >> }

Configs == { Config(a, b, c, p[1], p[2]) : a \in BOOLEAN, b \in BOOLEAN, c \in BOOLEAN,
                                           p \in PreviewSettings }

ReadValuesSlice(key) == IF key = <<"app", ".", "services">> THEN cfg.services ELSE <<>>

ReadValuesBool(key) == IF key \in DOMAIN cfg.bools THEN cfg.bools[key] ELSE FALSE

ReadValuesString(key) == IF key \in DOMAIN cfg.strings THEN cfg.strings[key] ELSE EmptyString

App == cfg.app

\* ------------------------------------------------------------ icap.Request
AllowHeaders ==
  { EmptyHeader,
    "Allow" :> << <<"2", "0", "4">> >>,
    "Allow" :> << <<"2", "0", "4", ",", " ", "2", "0", "6">> >>,
    "Allow" :> << <<"2", "0", "6">> >> }

Requests ==
  { [ Method   |-> m,
      Path     |-> <<"/">> \o name,
      Header   |-> h,
      Request  |-> rq,
      Response |-> rs ] :
      m \in {ICAPModeOptions, REQMOD, RESPMOD},
      name \in {<<"svc">>, <<"nope">>},
      h \in AllowHeaders,
      rq \in {NilMsg} \cup {HttpRequest(hm, b) : hm \in {<<"GET">>, <<"CONNECT">>}, b \in Bodies},
      rs \in {NilMsg} \cup {HttpResponse(b) : b \in Bodies} }

\* ---------------------------------------------------------- the transaction
\* The ICAPRequest struct and what it owns during one transaction:
\*   ret      what RequestInitialization returned ("none" before it ran,
\*            "nil", the error's text, or "panic")
\*   h        the header block of the response writer (w.Header())
\*   calls    the calls made on the response writer, in order
\*   Request, Response   i.req.Request and i.req.Response
\*   rp       where RequestProcessing is ("none", "spawned": the goroutine
\*            is started, "backend": inside Processing(), "returned", "panic")
\*   rpBy     who runs RequestProcessing ("none", "caller", "goroutine")
\*   svc      the invocations of the backend (the arguments of GetService,
\*            the body Processing() finds and the calls already made on the
\*            response writer)
\*   result   what Processing() returned
\*   reads    the configuration keys read so far
NoResult == [status |-> 0, msg |-> NilMsg, headers |-> EmptyHeader]

NoAppCfg == [PreviewEnabled |-> FALSE, PreviewBytes |-> EmptyString]

NewICAPRequest ==
  [ ret                    |-> "none",
    serviceName            |-> EmptyString,
    methodName             |-> EmptyString,
    vendor                 |-> EmptyString,
    Is204Allowed           |-> FALSE,
    isShadowServiceEnabled |-> FALSE,
    appCfg                 |-> NoAppCfg,
    h                      |-> EmptyHeader,
    calls                  |-> <<>>,
    Request                |-> req.Request,
    Response               |-> req.Response,
    rp                     |-> "none",
    rpBy                   |-> "none",
    svc                    |-> <<>>,
    result                 |-> NoResult,
    reads                  |-> {} ]

\* ---------------------------------------------------------- response writer
\* i.w.WriteHeader(code, httpMessage, hasBody): the call, with the header
\* block as it is at this moment
WriteHeader(r, code, msg, hasBody) ==
  [r EXCEPT !.calls = Append(@, [op |-> "WriteHeader", code |-> code, msg |-> msg.id,
                                 hasBody |-> hasBody, header |-> r.h, body |-> <<>>])]

\* i.w.Write(bytes)
Write(r, bytes) ==
  [r EXCEPT !.calls = Append(@, [op |-> "Write", code |-> 0, msg |-> "nil",
                                 hasBody |-> FALSE, header |-> EmptyHeader, body |-> bytes])]

Reading(r, key) == [r EXCEPT !.reads = @ \cup {key}]

\* ------------------------------------------------------------------ helpers
\* isServiceExists taking every name for a configured service
isServiceExists_AnyName(r) == TRUE

isServiceExists(r) ==
  \E k \in 1..Len(ReadValuesSlice(<<"app", ".", "services">>)) :
      r.serviceName = ReadValuesSlice(<<"app", ".", "services">>)[k]

\* getMethodName with the two configuration keys exchanged
getMethodName_Exchanged(r) ==
  IF r.methodName = REQMOD THEN <<"resp_mode">>
  ELSE IF r.methodName = RESPMOD THEN <<"req_mode">>
  ELSE r.methodName

getMethodName(r) ==
  IF r.methodName = REQMOD THEN <<"req_mode">>
  ELSE IF r.methodName = RESPMOD THEN <<"resp_mode">>
  ELSE r.methodName

isMethodAllowed(r) ==
  IF r.methodName /= ICAPModeOptions
  THEN ReadValuesBool(r.serviceName \o <<".">> \o r.methodName)
  ELSE TRUE

\* the keys isMethodAllowed reads
isMethodAllowedReads(r) ==
  IF r.methodName /= ICAPModeOptions
  THEN {r.serviceName \o <<".">> \o r.methodName}
  ELSE {}

getVendorName(r) == ReadValuesString(r.serviceName \o <<".", "vendor">>)

addingISTAGServiceHeaders(r) ==
  LET tagged == HeaderSet(r.h, "ISTag", ReadValuesString(r.serviceName \o <<".", "service_tag">>))
  IN  [r EXCEPT !.h = HeaderSet(tagged, "Service",
                         ReadValuesString(r.serviceName \o <<".", "service_caption">>)),
                !.reads = @ \cup {r.serviceName \o <<".", "service_tag">>,
                                  r.serviceName \o <<".", "service_caption">>}]

is204Allowed(r) ==
  /\ "Allow" \in DOMAIN req.Header
  /\ HeaderGet(req.Header, "Allow") = Itoa(NoModificationStatusCodeStr)

\* shadowService that leaves the body it has read in place of a fresh buffer
shadowService_BodyConsumed(r) ==
  IF r.Is204Allowed
  THEN WriteHeader(r, NoModificationStatusCodeStr, NilMsg, FALSE)
  ELSE IF req.Method = REQMOD
  THEN LET sent == WriteHeader(r, OkStatusCodeStr, r.Request, TRUE)
       IN  IF r.Request.id = "nil"
           THEN [sent EXCEPT !.ret = "panic"]
           ELSE [Write(sent, ReadAll(r.Request.Body)) EXCEPT
                    !.Request.Body.off = Len(r.Request.Body.data)]
  ELSE IF req.Method = RESPMOD
  THEN LET sent == WriteHeader(r, OkStatusCodeStr, r.Response, TRUE)
       IN  IF r.Response.id = "nil"
           THEN [sent EXCEPT !.ret = "panic"]
           ELSE [Write(sent, ReadAll(r.Response.Body)) EXCEPT
                    !.Response.Body.off = Len(r.Response.Body.data)]
  ELSE r

\* shadowService: the reply to the client in shadow mode
shadowService(r) ==
  IF r.Is204Allowed
  THEN WriteHeader(r, NoModificationStatusCodeStr, NilMsg, FALSE)
  ELSE IF req.Method = REQMOD
  THEN LET sent == WriteHeader(r, OkStatusCodeStr, r.Request, TRUE)
       IN  IF r.Request.id = "nil"
           THEN [sent EXCEPT !.ret = "panic"]
           ELSE [Write(sent, ReadAll(r.Request.Body)) EXCEPT
                    !.Request.Body = NopCloser(NewBuffer(ReadAll(r.Request.Body)))]
  ELSE IF req.Method = RESPMOD
  THEN LET sent == WriteHeader(r, OkStatusCodeStr, r.Response, TRUE)
       IN  IF r.Response.id = "nil"
           THEN [sent EXCEPT !.ret = "panic"]
           ELSE [Write(sent, ReadAll(r.Response.Body)) EXCEPT
                    !.Response.Body = NopCloser(NewBuffer(ReadAll(r.Response.Body)))]
  ELSE r

\* ---------------------------------------------------- RequestInitialization
\* line 72: methodName is the ICAP method again; this variant leaves the
\* configuration key in it
restoreMethodName_KeyLeft(r) == r

\* line 72
restoreMethodName(r) == [r EXCEPT !.methodName = req.Method]

\* lines 74-84: vendor, identity headers, Is204Allowed, shadow flag, appCfg
readService(r) ==
  LET named  == [Reading(r, r.serviceName \o <<".", "vendor">>) EXCEPT
                    !.vendor = getVendorName(r)]
      tagged == addingISTAGServiceHeaders(named)
  IN  [Reading(tagged, tagged.serviceName \o <<".", "shadow_service">>) EXCEPT
          !.Is204Allowed = is204Allowed(tagged),
          !.isShadowServiceEnabled =
              ReadValuesBool(tagged.serviceName \o <<".", "shadow_service">>),
          !.appCfg = App]

\* shadowBranch that starts the goroutine without the reply of shadowService
shadowBranch_NoReply(r) ==
  IF r.isShadowServiceEnabled /\ r.methodName /= ICAPModeOptions
  THEN [r EXCEPT !.rp = "spawned", !.rpBy = "goroutine", !.ret = "shadow service"]
  ELSE [r EXCEPT !.ret = "nil"]

\* shadowBranch that returns nil after the shadow reply
shadowBranch_ReturnsNil(r) ==
  IF r.isShadowServiceEnabled /\ r.methodName /= ICAPModeOptions
  THEN LET replied == shadowService(r)
       IN  IF replied.ret = "panic" THEN replied
           ELSE [replied EXCEPT !.rp = "spawned", !.rpBy = "goroutine", !.ret = "nil"]
  ELSE [r EXCEPT !.ret = "nil"]

\* lines 86-93: the shadow reply and the goroutine, or the return of nil
shadowBranch(r) ==
  IF r.isShadowServiceEnabled /\ r.methodName /= ICAPModeOptions
  THEN LET replied == shadowService(r)
       IN  IF replied.ret = "panic" THEN replied
           ELSE [replied EXCEPT !.rp = "spawned", !.rpBy = "goroutine",
                                !.ret = "shadow service"]
  ELSE [r EXCEPT !.ret = "nil"]

\* lines 72-93: after the method gate
afterMethodGate(r) == shadowBranch(readService(restoreMethodName(r)))

RequestInitialization(r) ==
  LET routed == [Reading(r, <<"app", ".", "services">>) EXCEPT
                    !.serviceName = Tail(req.Path)]
  IN  IF ~isServiceExists(routed)
      THEN [WriteHeader(routed, StatusNotFound, NilMsg, FALSE) EXCEPT
               !.ret = "service doesn't exist"]
      ELSE LET keyed == [routed EXCEPT !.methodName = getMethodName([routed EXCEPT !.methodName = req.Method])]
               gated == [keyed EXCEPT !.reads = @ \cup isMethodAllowedReads(keyed)]
           IN  IF ~isMethodAllowed(gated)
               THEN [WriteHeader(gated, StatusMethodNotAllowed, NilMsg, FALSE) EXCEPT
                        !.ret = "method is not allowed"]
               ELSE afterMethodGate(gated)

\* -------------------------------------------------------- RequestProcessing
\* allMethods of getEnabledMethods
allMethods(r) ==
  (IF ReadValuesBool(r.serviceName \o <<".", "resp_mode">>) THEN <<RESPMOD>> ELSE <<>>)
  \o (IF ReadValuesBool(r.serviceName \o <<".", "req_mode">>) THEN <<REQMOD>> ELSE <<>>)

\* getEnabledMethods; allMethods[0] is out of range when no method is enabled
getEnabledMethods(r) ==
  IF Len(allMethods(r)) = 1 THEN allMethods(r)[1]
  ELSE allMethods(r)[1] \o <<", ">> \o allMethods(r)[2]

optionsMode(r) ==
  LET read == [r EXCEPT !.reads = @ \cup {r.serviceName \o <<".", "resp_mode">>,
                                          r.serviceName \o <<".", "req_mode">>}]
  IN  IF Len(allMethods(r)) = 0
      THEN [read EXCEPT !.rp = "panic"]
      ELSE LET h1 == HeaderSet(read.h, "Methods", getEnabledMethods(read))
               h2 == HeaderSet(h1, "Allow", <<"2", "0", "4">>)
               h3 == IF read.appCfg.PreviewEnabled = TRUE
                        /\ Atoi(read.appCfg.PreviewBytes) >= 0
                     THEN HeaderSet(h2, "Preview", read.appCfg.PreviewBytes)
                     ELSE h2
               h4 == HeaderSet(h3, "Transfer-Preview", UtilsAny)
           IN  [WriteHeader([read EXCEPT !.h = h4], StatusOK, NilMsg, FALSE) EXCEPT
                   !.rp = "returned"]

\* the message the method adapts
Subject(r) == IF r.methodName = REQMOD THEN r.Request ELSE r.Response

\* the deferred Body.Close() of RequestProcessing
deferredClose(r) ==
  IF r.methodName = REQMOD
  THEN [r EXCEPT !.Request.Body = Close(@)]
  ELSE [r EXCEPT !.Response.Body = Close(@)]

\* lines 118-126: service.GetService(...) and the call of Processing()
GetService(r) ==
  LET total == IF r.Request.id = "nil" THEN [r EXCEPT !.Request = EmptyRequest] ELSE r
  IN  [total EXCEPT !.rp = "backend",
                    !.svc = Append(@, [vendor      |-> total.vendor,
                                       serviceName |-> total.serviceName,
                                       methodName  |-> total.methodName,
                                       Request     |-> total.Request.id,
                                       Response    |-> total.Response.id,
                                       body        |-> ReadAll(Subject(total).Body),
                                       written     |-> total.calls])]

\* RequestProcessing that hands a CONNECT request to the backend as well
RequestProcessing_ConnectProcessed(r) ==
  IF r.methodName = ICAPModeOptions THEN optionsMode(r)
  ELSE IF r.methodName = <<"REQMOD">>
  THEN IF r.Request.id = "nil" THEN [r EXCEPT !.rp = "panic"]
       ELSE GetService(r)
  ELSE IF r.Response.id = "nil" THEN [r EXCEPT !.rp = "panic"]
       ELSE GetService(r)

\* RequestProcessing up to the call of the backend (lines 97-126)
RequestProcessing(r) ==
  IF r.methodName = ICAPModeOptions THEN optionsMode(r)
  ELSE IF r.methodName = <<"REQMOD">>
  THEN IF r.Request.id = "nil" THEN [r EXCEPT !.rp = "panic"]
       ELSE IF r.Request.Method = <<"CONNECT">>
       THEN [deferredClose(WriteHeader(r, NoModificationStatusCodeStr, NilMsg, FALSE))
               EXCEPT !.rp = "returned"]
       ELSE GetService(r)
  ELSE IF r.Response.id = "nil" THEN [r EXCEPT !.rp = "panic"]
       ELSE GetService(r)

\* what a backend can return: the status, the HTTP message and the headers
\* it wants in the ICAP response (no two of them with one canonical name)
ServiceHeaders ==
  { EmptyHeader, "X-Extra" :> <<"v">>, "ISTag" :> <<"evil">> }

Replacement == [id |-> "replacement", Method |-> <<"GET">>, Body |-> NewBuffer(<<>>)]

Results(r) ==
  [ status  : {OkStatusCodeStr, NoModificationStatusCodeStr,
               InternalServerErrStatusCodeStr, 403},
    msg     : {NilMsg, Subject(r), Replacement},
    headers : ServiceHeaders ]

RECURSIVE setAll(_, _, _)
\* lines 129-133: every header of the service is Set on the response
setAll(h, serviceHeaders, keys) ==
  IF keys = {} THEN h
  ELSE LET key == CHOOSE k \in keys : TRUE
       IN  setAll(HeaderSet(h, key, serviceHeaders[key]), serviceHeaders, keys \ {key})

\* statusReply that answers 204 without looking at Is204Allowed
statusReply_Always204(r, IcapStatusCode, httpMsg) ==
  IF IcapStatusCode = InternalServerErrStatusCodeStr
  THEN WriteHeader(r, IcapStatusCode, NilMsg, FALSE)
  ELSE IF IcapStatusCode = NoModificationStatusCodeStr
  THEN WriteHeader(r, NoModificationStatusCodeStr, NilMsg, FALSE)
  ELSE IF IcapStatusCode = OkStatusCodeStr
  THEN WriteHeader(r, OkStatusCodeStr, httpMsg, TRUE)
  ELSE r

\* lines 144-156: the ICAP response for the status of the service
statusReply(r, IcapStatusCode, httpMsg) ==
  IF IcapStatusCode = InternalServerErrStatusCodeStr
  THEN WriteHeader(r, IcapStatusCode, NilMsg, FALSE)
  ELSE IF IcapStatusCode = NoModificationStatusCodeStr
  THEN IF r.Is204Allowed
       THEN WriteHeader(r, NoModificationStatusCodeStr, NilMsg, FALSE)
       ELSE WriteHeader(r, OkStatusCodeStr, httpMsg, TRUE)
  ELSE IF IcapStatusCode = OkStatusCodeStr
  THEN WriteHeader(r, OkStatusCodeStr, httpMsg, TRUE)
  ELSE r

\* afterProcessing without the return of shadow mode (lines 137-140)
afterProcessing_ShadowReplies(r, res) ==
  LET merged == [r EXCEPT !.result = res,
                          !.h = setAll(r.h, res.headers, DOMAIN res.headers)]
  IN  [deferredClose(statusReply(merged, res.status, res.msg)) EXCEPT !.rp = "returned"]

\* RequestProcessing from the return of Processing() (lines 126-160)
afterProcessing(r, res) ==
  LET merged == [r EXCEPT !.result = res,
                          !.h = setAll(r.h, res.headers, DOMAIN res.headers)]
      out    == IF merged.isShadowServiceEnabled THEN merged
                ELSE statusReply(merged, res.status, res.msg)
  IN  [deferredClose(out) EXCEPT !.rp = "returned"]

\* ------------------------------------------------------------------ actions
Init ==
  /\ cfg \in Configs
  /\ req \in Requests
  /\ run = NewICAPRequest
  /\ twin = NewICAPRequest

\* the connection handler calls RequestInitialization
CallRequestInitialization ==
  /\ run.ret = "none"
  /\ run' = RequestInitialization(run)
  /\ UNCHANGED <<cfg, req, twin>>

\* RequestInitialization returned nil: the handler calls RequestProcessing
CallRequestProcessing ==
  /\ run.ret = "nil"
  /\ run.rp = "none"
  /\ run' = RequestProcessing([run EXCEPT !.rpBy = "caller"])
  /\ UNCHANGED <<cfg, req, twin>>

\* go i.RequestProcessing() (line 89) starts to run
GoRequestProcessing ==
  /\ run.rp = "spawned"
  /\ run' = RequestProcessing(run)
  /\ UNCHANGED <<cfg, req, twin>>

\* Processing() returns and RequestProcessing runs to its end
ProcessingReturns ==
  /\ run.rp = "backend"
  /\ \E res \in Results(run) : run' = afterProcessing(run, res)
  /\ UNCHANGED <<cfg, req, twin>>

Next ==
  \/ CallRequestInitialization
  \/ CallRequestProcessing
  \/ GoRequestProcessing
  \/ ProcessingReturns

Spec == Init /\ [][Next]_vars

\* ------------------------------------------- two runs of one transaction
\* twin is a second run of the same request under the same configuration;
\* the two runs take the same steps and differ only in what the backend
\* returns to each.
TwinRequestInitialization ==
  /\ run.ret = "none"
  /\ run' = RequestInitialization(run)
  /\ twin' = RequestInitialization(twin)
  /\ UNCHANGED <<cfg, req>>

TwinCallRequestProcessing ==
  /\ run.ret = "nil"
  /\ run.rp = "none"
  /\ run' = RequestProcessing([run EXCEPT !.rpBy = "caller"])
  /\ twin' = RequestProcessing([twin EXCEPT !.rpBy = "caller"])
  /\ UNCHANGED <<cfg, req>>

TwinGoRequestProcessing ==
  /\ run.rp = "spawned"
  /\ run' = RequestProcessing(run)
  /\ twin' = RequestProcessing(twin)
  /\ UNCHANGED <<cfg, req>>

TwinProcessingReturns ==
  /\ run.rp = "backend"
  /\ twin.rp = "backend"
  /\ \E res \in Results(run), other \in Results(twin) :
        /\ run' = afterProcessing(run, res)
        /\ twin' = afterProcessing(twin, other)
  /\ UNCHANGED <<cfg, req>>

TwinNext ==
  \/ TwinRequestInitialization
  \/ TwinCallRequestProcessing
  \/ TwinGoRequestProcessing
  \/ TwinProcessingReturns

TwinSpec == Init /\ [][TwinNext]_vars

\* ------------------------------------------------------------------ claims
WriteHeaderCalls(r) == SelectSeq(r.calls, LAMBDA c : c.op = "WriteHeader")

\* the call is WriteHeader(code, msg, hasBody)
IsWriteHeader(c, code, msg, hasBody) ==
  c.op = "WriteHeader" /\ c.code = code /\ c.msg = msg /\ c.hasBody = hasBody

\* the transaction ran to its end: RequestInitialization refused the request,
\* or RequestProcessing returned
Completed(r) ==
  \/ r.ret \in {"service doesn't exist", "method is not allowed"}
  \/ r.rp = "returned"

\* the service of the URI is in app.services
ServiceConfigured == \E k \in 1..Len(cfg.services) : cfg.services[k] = Tail(req.Path)

ReqModeEnabled == ReadValuesBool(Tail(req.Path) \o <<".", "req_mode">>)

RespModeEnabled == ReadValuesBool(Tail(req.Path) \o <<".", "resp_mode">>)

ShadowConfigured == ReadValuesBool(Tail(req.Path) \o <<".", "shadow_service">>)

ConnectRequest == req.Method = REQMOD /\ req.Request.Method = <<"CONNECT">>

\* C1: RequestInitialization followed by RequestProcessing calls WriteHeader
\* exactly once, before any Write: never more than one call, and exactly one,
\* the first call on the writer, once the transaction has run to its end.
C1_ExactlyOneStatusLine ==
  /\ Len(WriteHeaderCalls(run)) <= 1
  /\ Completed(run) =>
        /\ Len(WriteHeaderCalls(run)) = 1
        /\ run.calls[1].op = "WriteHeader"

\* C2: a 204 status is written only if the request advertised Allow: 204
\* (Is204Allowed), on every path.
C2_NoModificationOnlyIfAllowed ==
  \A k \in 1..Len(run.calls) :
      (run.calls[k].op = "WriteHeader" /\ run.calls[k].code = NoModificationStatusCodeStr)
         => run.Is204Allowed

\* C2 amended: a 204 status is written only if the request advertised
\* Allow: 204 or is a REQMOD of a CONNECT request.
C2_NoModificationOnlyIfAllowedOrConnect ==
  \A k \in 1..Len(run.calls) :
      (run.calls[k].op = "WriteHeader" /\ run.calls[k].code = NoModificationStatusCodeStr)
         => (run.Is204Allowed \/ ConnectRequest)

\* C2 witness: the backend returned 204 outside shadow mode and the 204 went
\* to a client that had advertised Allow: 204.
C2_Witness ==
  /\ ~run.isShadowServiceEnabled /\ run.rp = "returned" /\ Len(run.svc) = 1
  /\ run.result.status = NoModificationStatusCodeStr
  /\ run.Is204Allowed
  /\ Len(run.calls) = 1 /\ run.calls[1].code = NoModificationStatusCodeStr

\* C3: a REQMOD of a CONNECT request to an existing service with REQMOD
\* enabled gets the single reply 204 without a body, whatever the shadow flag
\* and the Allow header are, and the backend is left alone.
C3_ConnectRepliesNoModification ==
  (ServiceConfigured /\ ReqModeEnabled /\ ConnectRequest) =>
     /\ Len(run.calls) <= 1
     /\ \A k \in 1..Len(run.calls) :
           IsWriteHeader(run.calls[k], NoModificationStatusCodeStr, "nil", FALSE)
     /\ Completed(run) => Len(run.calls) = 1

\* C4: every response, the 404 and the 405 included, has ISTag and Service in
\* the header block when WriteHeader is called.
C4_IdentityHeadersOnEveryReply ==
  \A k \in 1..Len(run.calls) :
      run.calls[k].op = "WriteHeader" =>
         {CanonicalMIMEHeaderKey("ISTag"), CanonicalMIMEHeaderKey("Service")}
            \subseteq DOMAIN run.calls[k].header

\* C5: on a shadow-enabled service the calls on the response writer for a
\* REQMOD or RESPMOD (status, header block, body) are the same in two runs of
\* the request that differ only in what the backend returns.
C5_ShadowReplyIndependentOfBackend ==
  (ShadowConfigured /\ req.Method /= ICAPModeOptions) => run.calls = twin.calls

\* C5 witness: a shadow transaction at its end, the two backends having
\* returned different statuses, messages and headers, a reply on the wire.
C5_Witness ==
  /\ ShadowConfigured /\ req.Method = RESPMOD
  /\ run.rp = "returned" /\ twin.rp = "returned"
  /\ run.result.status = OkStatusCodeStr /\ twin.result.status = InternalServerErrStatusCodeStr
  /\ run.result.msg = Replacement /\ twin.result.msg = NilMsg
  /\ run.result.headers /= twin.result.headers
  /\ Len(run.calls) = 2

\* C6 as stated: on the shadow path the backend is invoked exactly once by
\* the end of the transaction, also for a CONNECT request.
C6_BackendInvokedOnce ==
  (run.ret = "shadow service" /\ run.rp = "returned") => Len(run.svc) = 1

\* C6 amended: the backend is never invoked twice; when the goroutine of the
\* shadow path has returned it was invoked exactly once, except for a REQMOD
\* of a CONNECT request, for which it is not invoked.
C6_BackendInvokedOnceUnlessConnect ==
  /\ Len(run.svc) <= 1
  /\ (run.ret = "shadow service" /\ run.rp = "returned") =>
        Len(run.svc) = (IF ConnectRequest THEN 0 ELSE 1)

\* C6 witness: the goroutine of a shadow REQMOD returned after one invocation
\* of the backend.
C6_Witness ==
  /\ run.ret = "shadow service" /\ run.rpBy = "goroutine" /\ run.rp = "returned"
  /\ req.Method = REQMOD
  /\ Len(run.svc) = 1

\* C7: for a service that is not configured the only thing that happens is
\* the reply 404 without a body and the return of an error: no method gate
\* (methodName unset, no method flag read), no backend, no goroutine.
C7_UnknownService ==
  ~ServiceConfigured =>
     /\ run.ret \in {"none", "service doesn't exist"}
     /\ run.ret = "none" => run.calls = <<>>
     /\ run.ret /= "none" =>
           /\ Len(run.calls) = 1
           /\ IsWriteHeader(run.calls[1], StatusNotFound, "nil", FALSE)
     /\ run.methodName = EmptyString
     /\ run.reads \subseteq {<<"app", ".", "services">>}
     /\ run.svc = <<>>
     /\ run.rp = "none" /\ run.rpBy = "none"

\* C7 witness: RequestInitialization returned for an unknown service.
C7_Witness ==
  /\ ~ServiceConfigured
  /\ run.ret = "service doesn't exist"
  /\ Len(run.calls) = 1

\* C8: for an existing service a 405 is written exactly when the method is
\* REQMOD and req_mode is false or RESPMOD and resp_mode is false (never for
\* OPTIONS); the 405 is the only reply, with no backend and no goroutine.
C8_MethodGate ==
  (ServiceConfigured /\ run.ret /= "none") =>
     LET rejected == \E k \in 1..Len(run.calls) :
                        run.calls[k].op = "WriteHeader"
                           /\ run.calls[k].code = StatusMethodNotAllowed
     IN  /\ rejected <=> \/ req.Method = REQMOD /\ ~ReqModeEnabled
                         \/ req.Method = RESPMOD /\ ~RespModeEnabled
         /\ rejected =>
               /\ run.ret = "method is not allowed"
               /\ Len(run.calls) = 1
               /\ IsWriteHeader(run.calls[1], StatusMethodNotAllowed, "nil", FALSE)
               /\ run.svc = <<>>
               /\ run.rp = "none" /\ run.rpBy = "none"

\* C8 witness: a REQMOD refused with 405 although RESPMOD is enabled.
C8_Witness ==
  /\ ServiceConfigured
  /\ req.Method = REQMOD /\ ~ReqModeEnabled /\ RespModeEnabled
  /\ run.ret = "method is not allowed"
  /\ Len(run.calls) = 1 /\ run.calls[1].code = StatusMethodNotAllowed

\* C9: without shadow mode, when the backend returns 204 the reply is 204
\* without a body if Allow: 204 was advertised, and otherwise 200 with the
\* original HTTP message of the request.
C9_NoModificationEchoesOriginal ==
  (~run.isShadowServiceEnabled /\ run.rp = "returned" /\ Len(run.svc) = 1
      /\ run.result.status = NoModificationStatusCodeStr) =>
     /\ Len(run.calls) = 1
     /\ IF run.Is204Allowed
        THEN IsWriteHeader(run.calls[1], NoModificationStatusCodeStr, "nil", FALSE)
        ELSE IsWriteHeader(run.calls[1], OkStatusCodeStr, Subject(run).id, TRUE)

\* C10: without shadow mode, a status of the backend other than 200, 204 and
\* 500 is written to the client as it is.
C10_OtherStatusPassesThrough ==
  (~run.isShadowServiceEnabled /\ run.rp = "returned" /\ Len(run.svc) = 1
      /\ run.result.status \notin {OkStatusCodeStr, NoModificationStatusCodeStr,
                                   InternalServerErrStatusCodeStr}) =>
     /\ Len(run.calls) = 1
     /\ run.calls[1].op = "WriteHeader"
     /\ run.calls[1].code = run.result.status

\* the Methods value for the enabled methods of the service of the URI
EnabledMethodsString ==
  IF RespModeEnabled /\ ReqModeEnabled THEN <<"RESPMOD", ", ", "REQMOD">>
  ELSE IF RespModeEnabled THEN <<"RESPMOD">>
  ELSE IF ReqModeEnabled THEN <<"REQMOD">>
  ELSE EmptyString

\* C11: an OPTIONS request to an existing service, whatever its req_mode and
\* resp_mode flags, ends with the one reply 200 without a body whose Methods
\* header is the enabled-methods string and whose Allow header is 204.
C11_OptionsReply ==
  (ServiceConfigured /\ req.Method = ICAPModeOptions /\ run.rp \in {"returned", "panic"}) =>
     /\ run.rp = "returned"
     /\ Len(run.calls) = 1
     /\ IsWriteHeader(run.calls[1], StatusOK, "nil", FALSE)
     /\ "Methods" \in DOMAIN run.calls[1].header
     /\ run.calls[1].header["Methods"] = EnabledMethodsString
     /\ "Allow" \in DOMAIN run.calls[1].header
     /\ run.calls[1].header["Allow"] = <<"2", "0", "4">>

\* preview_bytes is configured and is a non-negative integer
NonNegativePreviewConfigured ==
  /\ cfg.app.PreviewEnabled
  /\ cfg.app.PreviewBytes /= <<>>
  /\ \A k \in 1..Len(cfg.app.PreviewBytes) : IsDigit(cfg.app.PreviewBytes[k])

\* C12: in an OPTIONS reply Preview and Transfer-Preview are both present
\* when a non-negative previewBytes is configured and both absent otherwise.
C12_PreviewHeadersTogether ==
  (req.Method = ICAPModeOptions /\ run.rp = "returned") =>
     \A k \in 1..Len(run.calls) :
        /\ "Preview" \in DOMAIN run.calls[k].header <=> NonNegativePreviewConfigured
        /\ "Transfer-Preview" \in DOMAIN run.calls[k].header <=> NonNegativePreviewConfigured

\* the writer calls w hold the whole shadow reply: the status line, and the
\* echoed body when 204 is not allowed
ShadowReplyCommitted(w) ==
  /\ Len(w) >= 1
  /\ w[1].op = "WriteHeader"
  /\ IF run.Is204Allowed
     THEN w[1].code = NoModificationStatusCodeStr
     ELSE /\ w[1].code = OkStatusCodeStr /\ w[1].hasBody
          /\ Len(w) >= 2 /\ w[2].op = "Write"

\* C13: on the shadow path the reply is committed (WriteHeader, and the body
\* Write when 204 is not allowed) when the goroutine is started, and so
\* before every invocation of the backend.
C13_ReplyBeforeBackend ==
  run.rpBy = "goroutine" =>
     /\ ShadowReplyCommitted(run.calls)
     /\ \A k \in 1..Len(run.svc) : ShadowReplyCommitted(run.svc[k].written)

\* C13 witness: the backend of a shadow transaction without Allow: 204 is
\* running, invoked after the status line and the body were written.
C13_Witness ==
  /\ run.rpBy = "goroutine" /\ run.rp = "backend"
  /\ ~run.Is204Allowed
  /\ Len(run.svc) = 1 /\ Len(run.svc[1].written) = 2

Contains(s, t) == \E k \in 1..(Len(s) - Len(t) + 1) : SubSeq(s, k, k + Len(t) - 1) = t

\* the Allow header of the request mentions 204
AllowMentions204 ==
  /\ "Allow" \in DOMAIN req.Header
  /\ \E k \in 1..Len(req.Header["Allow"]) :
        Contains(req.Header["Allow"][k], <<"2", "0", "4">>)

\* C14: Is204Allowed is true exactly when the Allow header of the request
\* contains 204, also next to other values ("204, 206").
C14_AllowContains204 ==
  run.ret \in {"nil", "shadow service"} => (run.Is204Allowed <=> AllowMentions204)

\* C15: after the headers of the backend are merged outside shadow mode,
\* ISTag and Service still hold the configured values and every other header
\* of the backend is in the header block.
C15_IdentityHeadersKept ==
  (~run.isShadowServiceEnabled /\ run.rp = "returned" /\ Len(run.svc) = 1) =>
     /\ run.h[CanonicalMIMEHeaderKey("ISTag")] =
           ReadValuesString(Tail(req.Path) \o <<".", "service_tag">>)
     /\ run.h[CanonicalMIMEHeaderKey("Service")] =
           ReadValuesString(Tail(req.Path) \o <<".", "service_caption">>)
     /\ \A key \in DOMAIN run.result.headers :
           CanonicalMIMEHeaderKey(key) \notin
                 {CanonicalMIMEHeaderKey("ISTag"), CanonicalMIMEHeaderKey("Service")}
              => /\ CanonicalMIMEHeaderKey(key) \in DOMAIN run.h
                 /\ run.h[CanonicalMIMEHeaderKey(key)] = run.result.headers[key]

\* C16: for a REQMOD or RESPMOD with neither an encapsulated request nor an
\* encapsulated response RequestProcessing does not fail: the backend is
\* invoked with an empty request.
C16_EmptyRequestSubstituted ==
  (req.Method /= ICAPModeOptions /\ req.Request = NilMsg /\ req.Response = NilMsg
      /\ run.rp \in {"backend", "returned", "panic"}) =>
     /\ run.rp /= "panic"
     /\ Len(run.svc) = 1
     /\ run.svc[1].Request = "empty"

\* the body of the message the request asks to adapt
OriginalBody ==
  IF req.Method = REQMOD THEN req.Request.Body.data ELSE req.Response.Body.data

\* C17: on the shadow path without Allow: 204 the body written to the client
\* and the body the backend finds afterwards are both the original body.
C17_BodyRebuffered ==
  (run.ret = "shadow service" /\ ~run.Is204Allowed) =>
     /\ Len(run.calls) >= 2
     /\ run.calls[2].op = "Write"
     /\ run.calls[2].body = OriginalBody
     /\ \A k \in 1..Len(run.svc) : run.svc[k].body = OriginalBody

\* C17 witness: the backend of such a transaction was invoked and found the
\* body, which is not empty.
C17_Witness ==
  /\ run.ret = "shadow service" /\ ~run.Is204Allowed
  /\ Len(run.svc) = 1
  /\ run.svc[1].body /= <<>>
  /\ run.svc[1].body = run.calls[2].body

\* C18: once RequestInitialization has returned on the shadow path, no step
\* of the goroutine changes the header block of the response writer or calls
\* the writer.
C18_GoroutineLeavesWriterAlone ==
  [][run.ret = "shadow service" => (run'.h = run.h /\ run'.calls = run.calls)]_vars

\* C19: when RequestInitialization returns an error it has written a status
\* line (the 404, the 405 or the shadow reply), when it returns nil it has
\* written nothing, and after nil there is never more than one status line.
C19_ErrorIffReplied ==
  /\ (run.ret \in {"service doesn't exist", "method is not allowed", "shadow service"}
         /\ run.rp \in {"none", "spawned"}) =>
        /\ Len(WriteHeaderCalls(run)) = 1
        /\ run.calls[1].op = "WriteHeader"
  /\ (run.ret = "nil" /\ run.rp \in {"none", "spawned"}) => run.calls = <<>>
  /\ run.ret = "nil" => Len(WriteHeaderCalls(run)) <= 1

\* C19 witness: RequestInitialization has just returned the shadow error,
\* the reply written.
C19_Witness ==
  /\ run.ret = "shadow service" /\ run.rp = "spawned"
  /\ Len(WriteHeaderCalls(run)) = 1

\* C20: past the method gate methodName is the ICAP method of the request,
\* the backend is selected with it, and the configuration key (req_mode,
\* resp_mode) is left in methodName only on the 405 path.
C20_MethodNameRestored ==
  /\ run.ret \in {"nil", "shadow service", "panic"} => run.methodName = req.Method
  /\ \A k \in 1..Len(run.svc) : run.svc[k].methodName = req.Method
  /\ run.methodName \in {<<"req_mode">>, <<"resp_mode">>} =>
        run.ret = "method is not allowed"

\* C20 witness: the backend was selected for a REQMOD that passed the gate.
C20_Witness ==
  /\ req.Method = REQMOD
  /\ Len(run.svc) = 1 /\ run.svc[1].methodName = REQMOD
  /\ run.methodName = REQMOD

====
